---- MODULE Spec2Model ----
\* A model of gsport's download engine (src/gsport.py): download_all's
\* listing / URL-resolution / scheduling loop, Session.download_file run
\* either as a worker process (Linux) or inline (sequential fallback),
\* the top-level KeyboardInterrupt handler, and get_list's tree flattener.
EXTENDS Integers, Sequences, FiniteSets, TLC

\* ---------------------------------------------------------------- bounds

\* Longest listing (number of entries of datafiles) drawn by Init.
MaxFiles == 2
\* Largest worker count (-t / --workers) drawn by Init.
MaxWorkers == 2
\* Largest elapsed time, in seconds, the clock is read at.
MaxElapsed == 3
\* Chunk size of iter_content, scaled down from 8 MiB.
ChunkSize == 100
\* Most nodes of a DirectoryEntry tree drawn by FlatInit.
MaxNodes == 4

\* File sizes the directory service reports: an empty file, a file of a few
\* bytes, and a file larger than the render threshold and than one chunk.
FileSizes == {0, 2, 120}

\* `if dl_sum > 100` (the render threshold).
RenderThreshold == 100

\* ---------------------------------------------------------------- state

VARIABLES
    \* inputs of the run (never written after Init)
    platform_linux,        \* platform.platform().startswith('Linux')
    datafiles,             \* the listing: sequence of file['size']
    max_processes,         \* int(session.options.threads)
    initial_dir,           \* options.dir as Options.__init__ left it
    options_recursive,     \* options.recursive
    \* session / options state of the coordinating process
    options_dir,           \* session.options.dir, a path split at '/'
    options_download_all,  \* session.options.download_all
    \* download_all's locals
    pc,                    \* where the coordinating process is
    file_idx,              \* position of `for file in datafiles`
    dl_sum,
    dl_list,               \* sequence of fsize, one per appended target
    resolved,              \* directory prefix each gen_session_file request used
    current_processes,
    finished_processes,
    current_process,
    downloaded_bytes,
    \* the shared multiprocessing.Queue: sequence of <<len, done>>
    queue,
    \* one download_file activation per target
    wpc,                   \* its position
    dsize,                 \* bytes written to the local file (dsize)
    chunk,                 \* len(chunk) of the chunk just written
    wdir,                  \* options.dir of the forked copy
    emitted,               \* sum of len put on the queue with done = False
    done_put,              \* number of [0, True] events put
    start_count,           \* number of Process.start() calls on the target
    \* observable output
    warned,                \* "Non-linux platform supports no multi-threaded ..."
    last_pct,              \* percentage of the last progress line, -1 if none
    printed_complete,      \* number of "Downloading complete" lines
    exit_code,             \* process exit status, -1 while running
    err,                   \* exception that ended the coordinating process
    interrupted,           \* an operator interrupt has been delivered
    \* get_list
    tree,                  \* json.loads(res)['children']
    session_dir,           \* get_list's session_dir, a path split at '/'
    fs,                    \* local directories that exist
    flist,                 \* get_list's result
    flat_pc

inputVars == <<platform_linux, datafiles, max_processes, initial_dir, options_recursive>>
optVars   == <<options_dir, options_download_all>>
locVars   == <<pc, file_idx, dl_sum, dl_list, resolved, current_processes,
               finished_processes, current_process, downloaded_bytes>>
wrkVars   == <<wpc, dsize, chunk, wdir, emitted, done_put, start_count>>
outVars   == <<warned, last_pct, printed_complete, exit_code, err, interrupted>>
flatVars  == <<tree, session_dir, fs, flist, flat_pc>>
vars      == <<inputVars, optVars, locVars, queue, wrkVars, outVars, flatVars>>

Targets == 1..MaxFiles

\* ---------------------------------------------------------------- helpers

Min(a, b) == IF a < b THEN a ELSE b

\* The sequences over S of length at most n.
SeqUpTo(S, n) == UNION {[1..k -> S] : k \in 0..n}

\* Python's round() of the quotient num / den (den > 0): to nearest, ties to even.
PyRound(num, den) ==
    LET q == num \div den
        r == num % den
    IN  IF 2 * r < den THEN q
        ELSE IF 2 * r > den THEN q + 1
        ELSE IF q % 2 = 0 THEN q ELSE q + 1

\* `x // (time.time() - start)` with the clock read `elapsed` seconds after start.
Rate(bytes, elapsed) == bytes \div elapsed

\* `'/'.join(d.split('/')[:-1])`, then '.' when that is the empty string: a path
\* is held as d.split('/'), so the join of no component, or of one empty
\* component, is ''.
StripDir(d) ==
    LET cut == SubSeq(d, 1, Len(d) - 1)
    IN  IF cut = <<>> \/ cut = <<"">> THEN <<".">> ELSE cut

\* Every size is raised by one to keep it off zero.
FsizePlusOne(size) == size + 1

\* `file['size'] if file['size'] != 0 else 1`
Fsize(size) == IF size # 0 THEN size ELSE 1

\* The directory prefix of the filename sent to gen_session_file:
\* `session.options.dir if not session.options.recursive else ''`.
UrlPrefix == IF ~options_recursive THEN options_dir ELSE <<"">>

\* download_file activations that hold an open transfer.
ActivePcs == {"new", "loop", "wrote", "eof"}
InFlight == {i \in Targets : wpc[i] \in ActivePcs}

\* ---------------------------------------------------------------- get_list

\* Names and sizes of the file entries, and the name of the directory entries,
\* of the listings drawn by FlatInit.
FileNames == {"a", "b"}
TreeSizes == {0, 7}
DirNames == {"d"}

File(n, s) == [type |-> "file", name |-> n, size |-> s, children |-> <<>>]
Dir(n, c) == [type |-> "directory", name |-> n, size |-> 0, children |-> c]

RECURSIVE EntriesOf(_)
RECURSIVE ForestsOf(_)
\* The DirectoryEntry values of exactly k nodes.
EntriesOf(k) ==
    IF k = 1
       THEN {File(n, s) : n \in FileNames, s \in TreeSizes} \cup {Dir(n, <<>>) : n \in DirNames}
       ELSE {Dir(n, c) : n \in DirNames, c \in ForestsOf(k - 1)}
\* The listings (sequences of DirectoryEntry) of exactly n nodes in all.
ForestsOf(n) ==
    IF n = 0
       THEN {<<>>}
       ELSE UNION {{<<e>> \o r : e \in EntriesOf(k), r \in ForestsOf(n - k)} : k \in 1..n}

\* os.path.join(path, name) for a name without '/': a separator is added
\* unless path is empty or ends with one (its last component is then '').
PathJoin(path, name) ==
    IF path[Len(path)] = ""
       THEN [path EXCEPT ![Len(path)] = name]
       ELSE Append(path, name)

\* path + "/" + name
PathPlus(path, name) == Append(path, name)

\* os.path.isdir(d): the working directory always exists.
IsDir(dirs, d) == d \in dirs \cup {<<".">>}

\* os.makedirs(d): d and every missing ancestor of it.
MakeDirs(dirs, d) == dirs \cup {SubSeq(d, 1, k) : k \in 1..Len(d)}

\* The file is put in front of the list instead of behind it.
AddFileInFront(fl, path, item) ==
    <<[name |-> PathPlus(path, item.name), size |-> item.size]>> \o fl

\* Lines 368-369: flist.append({"name": path + "/" + item["name"], "size": ...}).
AddFile(fl, path, item) ==
    Append(fl, [name |-> PathPlus(path, item.name), size |-> item.size])

\* os.makedirs(d) raises FileExistsError when d exists by the time it is
\* called: `racing` are the directories another process creates between this
\* process's os.path.isdir(d) and its os.makedirs(d).
MakedirsRaises(dirs, d, racing) == IsDir(dirs, d) \/ d \in racing

\* The except clause lets every exception of os.makedirs through.
CatchesNothing(exc) == FALSE

\* Lines 364-365: `except FileExistsError: pass`.
Catches(exc) == exc = "FileExistsError"

RECURSIVE print_list(_, _, _, _)
\* Lines 357-369: the loop over dic, carrying get_list's flist, the local
\* directories and whether an exception has left the function as st; a
\* directory is created if it is missing, then walked before the next entry
\* of dic. Whether this process or a racing one creates d, d and its
\* ancestors exist afterwards.
print_list(dic, path, st, racing) ==
    IF dic = <<>> \/ st.error
       THEN st
       ELSE LET item == Head(dic)
                d    == PathJoin(path, item.name)
                made == IF IsDir(st.fs, d)
                           THEN st
                           ELSE [st EXCEPT !.fs = MakeDirs(@, d),
                                           !.error = MakedirsRaises(st.fs, d, racing)
                                                       /\ ~Catches("FileExistsError")]
                st1  == IF item.type = "directory"
                           THEN print_list(item.children, d, made, racing)
                           ELSE [st EXCEPT !.flist = AddFile(@, path, item)]
            IN  print_list(Tail(dic), path, st1, racing)

\* Lines 353-372: get_list(res, session_dir) on the decoded children of res,
\* with the local directories `dirs`; returns flist, the directories, and
\* whether an exception left it.
get_list(children, dir, dirs, racing) ==
    print_list(children, dir, [flist |-> <<>>, fs |-> dirs, error |-> FALSE], racing)

RECURSIVE TreeDirs(_, _)
\* The local directory of every directory-type node of a listing.
TreeDirs(dic, path) ==
    IF dic = <<>> THEN {}
    ELSE (IF Head(dic).type = "directory"
             THEN {PathJoin(path, Head(dic).name)}
                  \cup TreeDirs(Head(dic).children, PathJoin(path, Head(dic).name))
             ELSE {})
         \cup TreeDirs(Tail(dic), path)

\* The recursive listing the directory service returns for the files of
\* sizes `sizes`: one directory holding them all.
ListingTree(sizes) ==
    <<Dir("d", [k \in 1..Len(sizes) |-> File(ToString(k), sizes[k])])>>

\* ---------------------------------------------------------------- Init

\* options.dir after Options.__init__: '.' by default, `a + "/"` after --cd a.
DirChoices == {<<".">>, <<"a", "">>}

\* Line 424: max_processes = int(session.options.threads), the argument of -t
\* taken as it is given (lines 138-139): any integer, zero and negative
\* numbers included.
ThreadCounts == -1..MaxWorkers

Init ==
    /\ platform_linux \in BOOLEAN
    /\ datafiles \in SeqUpTo(FileSizes, MaxFiles)
    /\ max_processes \in ThreadCounts
    /\ initial_dir \in DirChoices
    /\ options_recursive \in BOOLEAN
    /\ options_dir = initial_dir
    /\ options_download_all = TRUE
    /\ pc = "listing"
    /\ file_idx = 1
    /\ dl_sum = 0
    /\ dl_list = <<>>
    /\ resolved = <<>>
    /\ current_processes = 0
    /\ finished_processes = 0
    /\ current_process = 0
    /\ downloaded_bytes = 0
    /\ queue = <<>>
    /\ wpc = [i \in Targets |-> "idle"]
    /\ dsize = [i \in Targets |-> 0]
    /\ chunk = [i \in Targets |-> 0]
    /\ wdir = [i \in Targets |-> <<>>]
    /\ emitted = [i \in Targets |-> 0]
    /\ done_put = [i \in Targets |-> 0]
    /\ start_count = [i \in Targets |-> 0]
    /\ warned = FALSE
    /\ last_pct = -1
    /\ printed_complete = 0
    /\ exit_code = -1
    /\ err = "none"
    /\ interrupted = FALSE
    /\ tree = IF options_recursive THEN ListingTree(datafiles) ELSE <<>>
    /\ session_dir = <<".">>
    /\ fs = {}
    /\ flist = <<>>
    /\ flat_pc = "off"

\* ---------------------------------------------------------------- download_all

\* The process ends with status `code` because of `why`.
EndProcess(code, why) ==
    /\ pc' = "ended"
    /\ exit_code' = code
    /\ err' = why

\* The diagnostic is printed but exit(1) is not called: the run goes on with
\* the empty datafiles.
ListingFailsGoesOn ==
    /\ pc' = "resolve"
    /\ err' = "JSONDecodeError"
    /\ UNCHANGED <<exit_code, options_download_all, warned, fs>>

\* Lines 384-386 and 393-395: json.loads raises JSONDecodeError (in get_list,
\* before print_list is called, when recursive); the diagnostic is printed and
\* exit(1) called.
ListingFails ==
    /\ EndProcess(1, "JSONDecodeError")
    /\ UNCHANGED <<options_download_all, warned, fs>>

\* Lines 377-404 with a response that decodes: when recursive, get_list
\* creates the local directories of the tree; then the platform is looked at.
ListingDecoded ==
    /\ pc' = "resolve"
    /\ fs' = IF options_recursive THEN get_list(tree, options_dir, fs, {}).fs ELSE fs
    /\ IF platform_linux
          THEN UNCHANGED <<options_download_all, warned>>
          ELSE /\ warned' = TRUE
               /\ options_download_all' = FALSE
    /\ UNCHANGED <<exit_code, err>>

\* Lines 376-404: fetch and decode the listing, then look at the platform.
\* A response that does not decode prints the diagnostic and calls exit(1).
GetListing ==
    /\ pc = "listing"
    /\ \/ ListingFails
       \/ ListingDecoded
    /\ UNCHANGED <<inputVars, options_dir, file_idx, dl_sum, dl_list, resolved,
                   current_processes, finished_processes, current_process,
                   downloaded_bytes, queue, wrkVars, last_pct, printed_complete,
                   interrupted, tree, session_dir, flist, flat_pc>>

\* Lines 406-419, one iteration of `for file in datafiles`: add fsize to dl_sum,
\* request the download URL, then append the target (Linux) or call
\* session.download_file in this process (any other platform).
ResolveNext ==
    /\ pc = "resolve"
    /\ file_idx <= Len(datafiles)
    /\ dl_sum' = dl_sum + Fsize(datafiles[file_idx])
    /\ resolved' = Append(resolved, UrlPrefix)
    /\ IF platform_linux
          THEN /\ dl_list' = Append(dl_list, Fsize(datafiles[file_idx]))
               /\ file_idx' = file_idx + 1
               /\ UNCHANGED <<pc, wpc>>
          ELSE /\ wpc' = [wpc EXCEPT ![file_idx] = "new"]
               /\ pc' = "seq_dl"
               /\ UNCHANGED <<dl_list, file_idx>>
    /\ UNCHANGED <<inputVars, optVars, current_processes, finished_processes,
                   current_process, downloaded_bytes, queue, dsize, chunk, wdir,
                   emitted, done_put, start_count, outVars, flatVars>>

\* Line 419 returning: the inline download_file call is over, on to the next file.
SeqReturn ==
    /\ pc = "seq_dl"
    /\ wpc[file_idx] \in {"returned", "aborted"}
    /\ file_idx' = file_idx + 1
    /\ pc' = "resolve"
    /\ UNCHANGED <<inputVars, optVars, dl_sum, dl_list, resolved, current_processes,
                   finished_processes, current_process, downloaded_bytes, queue,
                   wrkVars, outVars, flatVars>>

\* The for loop is left as soon as one file has been handled.
ListingCutShort == file_idx > 1

\* Line 406: the for loop over datafiles has handled every file.
ListingExhausted == file_idx > Len(datafiles)

\* Lines 420-434, after the for loop: exit(0) off Linux, else set up the counters.
ResolveEnd ==
    /\ pc = "resolve"
    /\ ListingExhausted
    /\ IF ~platform_linux
          THEN /\ EndProcess(0, "exit")
               /\ UNCHANGED <<current_processes, finished_processes,
                              current_process, downloaded_bytes>>
          ELSE /\ pc' = "sched"
               /\ current_processes' = 0
               /\ finished_processes' = 0
               /\ current_process' = 0
               /\ downloaded_bytes' = 0
               /\ UNCHANGED <<exit_code, err>>
    /\ UNCHANGED <<inputVars, optVars, file_idx, dl_sum, dl_list, resolved, queue,
                   wrkVars, warned, last_pct, printed_complete, interrupted, flatVars>>

number_of_processes == Len(dl_list)

\* The loop starts a process although max_processes are running.
CanStartUnbounded ==
    /\ finished_processes < number_of_processes
    /\ current_process < number_of_processes

\* Line 437: the condition under which the loop starts the next process.
CanStart ==
    /\ current_processes < max_processes
    /\ finished_processes < number_of_processes
    /\ current_process < number_of_processes

\* The loop indexes the process list with the number of running processes.
StartIndexOfRunning == current_processes + 1

\* Line 438: the target `processes[current_process]` names (targets are
\* numbered from 1 here, the list from 0 in the source).
StartIndex == current_process + 1

\* Lines 436-443, the head of one iteration of `while True`: start
\* processes[current_process] if a slot and a target are left, then either
\* `continue` or go on to queue.get().
Schedule ==
    /\ pc = "sched"
    /\ LET go  == CanStart
           tgt == StartIndex
           cur == IF go THEN current_process + 1 ELSE current_process
           cps == IF go THEN current_processes + 1 ELSE current_processes
       IN  /\ current_process' = cur
           /\ current_processes' = cps
           /\ IF go
                 THEN /\ wpc' = [wpc EXCEPT ![tgt] = "new"]
                      /\ wdir' = [wdir EXCEPT ![tgt] = options_dir]
                      /\ start_count' = [start_count EXCEPT ![tgt] = @ + 1]
                 ELSE UNCHANGED <<wpc, wdir, start_count>>
           /\ pc' = IF cps < max_processes /\ cur < number_of_processes
                       THEN "sched" ELSE "wait"
    /\ UNCHANGED <<inputVars, optVars, file_idx, dl_sum, dl_list, resolved,
                   finished_processes, downloaded_bytes, queue, dsize, chunk,
                   emitted, done_put, outVars, flatVars>>

\* Lines 445-466: take one status off the queue, update the counters, compute
\* the rate, render the progress line when dl_sum > 100, and leave the loop
\* when finished_processes == number_of_processes. The ETA argument
\* (dl_sum - downloaded_bytes) / rate raises ZeroDivisionError when rate is 0,
\* before anything is printed; the exception leaves main() and the process
\* ends with status 1.
Consume ==
    /\ pc = "wait"
    /\ queue # <<>>
    /\ LET status == Head(queue)
           db     == downloaded_bytes + status[1]
           cps    == IF status[2] THEN current_processes - 1 ELSE current_processes
           fin    == IF status[2] THEN finished_processes + 1 ELSE finished_processes
       IN  /\ queue' = Tail(queue)
           /\ downloaded_bytes' = db
           /\ current_processes' = cps
           /\ finished_processes' = fin
           /\ \E elapsed \in 1..MaxElapsed :
                LET rate == Rate(db, elapsed)
                IN  IF dl_sum > RenderThreshold /\ rate = 0
                       THEN /\ EndProcess(1, "ZeroDivisionError")
                            /\ UNCHANGED <<last_pct, printed_complete>>
                       ELSE /\ last_pct' = IF dl_sum > RenderThreshold
                                              THEN PyRound(db * 100, dl_sum)
                                              ELSE last_pct
                            /\ IF fin = number_of_processes
                                  THEN /\ printed_complete' = printed_complete + 1
                                       /\ pc' = "exited"
                                       /\ exit_code' = 0
                                  ELSE /\ pc' = "sched"
                                       /\ UNCHANGED <<printed_complete, exit_code>>
                            /\ UNCHANGED err
    /\ UNCHANGED <<inputVars, optVars, file_idx, dl_sum, dl_list, resolved,
                   current_process, wrkVars, warned, interrupted, flatVars>>

\* ---------------------------------------------------------------- Session.download_file

\* Lines 252-256: the stripped options.dir is created unless it is the empty
\* string (which becomes '.') or exists.
EnsureDir(dirs, d) ==
    IF StripDir(d) = <<".">> \/ IsDir(dirs, StripDir(d)) THEN dirs ELSE MakeDirs(dirs, StripDir(d))

\* Lines 246-257: open the streamed request, strip the last component off
\* self.options.dir (the forked copy in a worker process, the session's own
\* options when called inline), create that directory if it is missing, open
\* the local file.
DfOpen(i) ==
    /\ wpc[i] = "new"
    /\ wpc' = [wpc EXCEPT ![i] = "loop"]
    /\ IF platform_linux
          THEN /\ wdir' = [wdir EXCEPT ![i] = StripDir(@)]
               /\ fs' = EnsureDir(fs, wdir[i])
               /\ UNCHANGED options_dir
          ELSE /\ options_dir' = StripDir(options_dir)
               /\ fs' = EnsureDir(fs, options_dir)
               /\ UNCHANGED wdir
    /\ UNCHANGED <<inputVars, options_download_all, locVars, queue, dsize, chunk,
                   emitted, done_put, start_count, outVars, tree, session_dir,
                   flist, flat_pc>>

\* Lines 258-261: the next chunk of the stream is written to the file and
\* counted in dsize; or the stream has ended and the for loop is left.
DfRead(i) ==
    /\ wpc[i] = "loop"
    /\ LET left == datafiles[i] - dsize[i]
           len  == Min(ChunkSize, left)
       IN  IF left > 0
              THEN /\ dsize' = [dsize EXCEPT ![i] = @ + len]
                   /\ chunk' = [chunk EXCEPT ![i] = len]
                   /\ wpc' = [wpc EXCEPT ![i] = "wrote"]
              ELSE /\ wpc' = [wpc EXCEPT ![i] = "eof"]
                   /\ UNCHANGED <<dsize, chunk>>
    /\ UNCHANGED <<inputVars, optVars, locVars, queue, wdir, emitted, done_put,
                   start_count, outVars, flatVars>>

\* download_file reports the nominal chunk size instead of len(chunk).
ChunkEventNominal(i) == <<ChunkSize, FALSE>>

\* The event download_file puts for the chunk it has just written.
ChunkEvent(i) == <<chunk[i], FALSE>>

\* The terminal event carries a byte count of its own.
DoneEventCounted == <<1, TRUE>>

\* The event download_file puts after the stream has ended.
DoneEvent == <<0, TRUE>>

\* Lines 262-270: compute the rate, then print the single-file progress line
\* (not download_all) or put [len(chunk), False] on the queue (download_all).
\* The printed ETA (fsize - dsize) / rate raises ZeroDivisionError when rate is
\* 0; the except clause catches KeyboardInterrupt only, so the exception leaves
\* download_file, download_all and main().
DfReport(i) ==
    /\ wpc[i] = "wrote"
    /\ chunk' = [chunk EXCEPT ![i] = 0]
    /\ IF options_download_all
          THEN /\ queue' = Append(queue, ChunkEvent(i))
               /\ emitted' = [emitted EXCEPT ![i] = @ + ChunkEvent(i)[1]]
               /\ wpc' = [wpc EXCEPT ![i] = "loop"]
               /\ UNCHANGED <<pc, exit_code, err>>
          ELSE /\ \E elapsed \in 1..MaxElapsed :
                    IF Rate(dsize[i], elapsed) = 0
                       THEN /\ wpc' = [wpc EXCEPT ![i] = "raised"]
                            /\ EndProcess(1, "ZeroDivisionError")
                       ELSE /\ wpc' = [wpc EXCEPT ![i] = "loop"]
                            /\ UNCHANGED <<pc, exit_code, err>>
               /\ UNCHANGED <<queue, emitted>>
    /\ UNCHANGED <<inputVars, optVars, file_idx, dl_sum, dl_list, resolved,
                   current_processes, finished_processes, current_process,
                   downloaded_bytes, dsize, wdir, done_put, start_count, warned,
                   last_pct, printed_complete, interrupted, flatVars>>

\* Lines 271-275: after the stream, put [0, True] (download_all) and return.
DfFinish(i) ==
    /\ wpc[i] = "eof"
    /\ wpc' = [wpc EXCEPT ![i] = "returned"]
    /\ IF options_download_all
          THEN /\ queue' = Append(queue, DoneEvent)
               /\ done_put' = [done_put EXCEPT ![i] = @ + 1]
          ELSE UNCHANGED <<queue, done_put>>
    /\ UNCHANGED <<inputVars, optVars, locVars, dsize, chunk, wdir, emitted,
                   start_count, outVars, flatVars>>

\* The except clause puts the terminal event before it returns.
DfInterruptPutsDone(i) ==
    /\ platform_linux
    /\ wpc[i] \in ActivePcs
    /\ wpc' = [wpc EXCEPT ![i] = "aborted"]
    /\ queue' = Append(queue, DoneEvent)
    /\ done_put' = [done_put EXCEPT ![i] = @ + 1]
    /\ UNCHANGED <<inputVars, optVars, locVars, dsize, chunk, wdir, emitted,
                   start_count, outVars, flatVars>>

\* Lines 273-274: a KeyboardInterrupt raised in one worker process (a signal
\* sent to that process alone) is caught and download_file returns.
DfInterrupt(i) ==
    /\ platform_linux
    /\ wpc[i] \in ActivePcs
    /\ wpc' = [wpc EXCEPT ![i] = "aborted"]
    /\ UNCHANGED <<inputVars, optVars, locVars, queue, dsize, chunk, wdir, emitted,
                   done_put, start_count, outVars, flatVars>>

\* A transfer error: requests.get or iter_content raises. The except clause
\* does not catch it: a worker process dies with it, an inline call passes it
\* on to main() and the process ends with status 1.
DfFail(i) ==
    /\ wpc[i] \in {"new", "loop"}
    /\ wpc' = [wpc EXCEPT ![i] = "failed"]
    /\ IF platform_linux
          THEN UNCHANGED <<pc, exit_code, err>>
          ELSE EndProcess(1, "RequestException")
    /\ UNCHANGED <<inputVars, optVars, file_idx, dl_sum, dl_list, resolved,
                   current_processes, finished_processes, current_process,
                   downloaded_bytes, queue, dsize, chunk, wdir, emitted, done_put,
                   start_count, warned, last_pct, printed_complete, interrupted,
                   flatVars>>

\* ---------------------------------------------------------------- __main__

\* The coordinating process is inside the inline download_file call's try block.
InInlineCall == ~platform_linux /\ pc = "seq_dl" /\ wpc[file_idx] \in ActivePcs

\* Lines 492-496: an operator interrupt (Ctrl-C) reaches the foreground process
\* group. Every worker process inside download_file catches it and returns. In
\* the coordinating process it is caught by an inline download_file call if one
\* is running; otherwise it leaves main(), the handler prints a newline and
\* the script runs off its end: exit status 0.
OperatorInterrupt ==
    /\ ~interrupted
    /\ pc \notin {"ended", "exited"}
    /\ interrupted' = TRUE
    /\ IF InInlineCall
          THEN /\ wpc' = [wpc EXCEPT ![file_idx] = "aborted"]
               /\ UNCHANGED <<pc, exit_code, err>>
          ELSE /\ wpc' = [i \in Targets |->
                            IF wpc[i] \in ActivePcs THEN "aborted" ELSE wpc[i]]
               /\ EndProcess(0, "KeyboardInterrupt")
    /\ UNCHANGED <<inputVars, optVars, file_idx, dl_sum, dl_list, resolved,
                   current_processes, finished_processes, current_process,
                   downloaded_bytes, queue, dsize, chunk, wdir, emitted, done_put,
                   start_count, warned, last_pct, printed_complete, flatVars>>

\* ---------------------------------------------------------------- specification

CoordinatorStep ==
    GetListing \/ ResolveNext \/ SeqReturn \/ ResolveEnd \/ Schedule \/ Consume

WorkerStep(i) == DfOpen(i) \/ DfRead(i) \/ DfReport(i) \/ DfFinish(i)

Next ==
    \/ CoordinatorStep
    \/ \E i \in Targets : WorkerStep(i)
    \/ \E i \in Targets : DfInterrupt(i)
    \/ \E i \in Targets : DfFail(i)
    \/ OperatorInterrupt

Spec == Init /\ [][Next]_vars

\* The operating system schedules every live process: the coordinating process
\* and each worker process keep taking their steps.
FairSpec ==
    /\ Spec
    /\ WF_vars(CoordinatorStep)
    /\ \A i \in Targets : WF_vars(WorkerStep(i))

\* ---------------------------------------------------------------- flattener specification

\* The download engine does not run in the flattener's specification.
DownloadOff ==
    /\ platform_linux = TRUE
    /\ datafiles = <<>>
    /\ max_processes = 1
    /\ initial_dir = <<".">>
    /\ options_recursive = TRUE
    /\ options_dir = <<".">>
    /\ options_download_all = TRUE
    /\ pc = "off"
    /\ file_idx = 1
    /\ dl_sum = 0
    /\ dl_list = <<>>
    /\ resolved = <<>>
    /\ current_processes = 0
    /\ finished_processes = 0
    /\ current_process = 0
    /\ downloaded_bytes = 0
    /\ queue = <<>>
    /\ wpc = [i \in Targets |-> "idle"]
    /\ dsize = [i \in Targets |-> 0]
    /\ chunk = [i \in Targets |-> 0]
    /\ wdir = [i \in Targets |-> <<>>]
    /\ emitted = [i \in Targets |-> 0]
    /\ done_put = [i \in Targets |-> 0]
    /\ start_count = [i \in Targets |-> 0]
    /\ warned = FALSE
    /\ last_pct = -1
    /\ printed_complete = 0
    /\ exit_code = -1
    /\ err = "none"
    /\ interrupted = FALSE

FlatInit ==
    /\ DownloadOff
    /\ tree \in UNION {ForestsOf(n) : n \in 0..MaxNodes}
    /\ session_dir \in DirChoices
    /\ fs = {}
    /\ flist = <<>>
    /\ flat_pc = "start"

\* Line 383: datafiles = get_list(response.text, session.options.dir), run a
\* first time and then once more on the same listing; another flatten of the
\* same listing may create any of its directories while this one runs.
GetList ==
    /\ flat_pc \in {"start", "done"}
    /\ \E racing \in SUBSET TreeDirs(tree, session_dir) :
          LET r == get_list(tree, session_dir, fs, racing)
          IN  /\ flist' = r.flist
              /\ fs' = r.fs
              /\ flat_pc' = IF r.error THEN "raised"
                             ELSE IF flat_pc = "start" THEN "done" ELSE "again"
    /\ UNCHANGED <<inputVars, optVars, locVars, queue, wrkVars, outVars, tree, session_dir>>

FlatNext == GetList

FlatSpec == FlatInit /\ [][FlatNext]_vars

\* ---------------------------------------------------------------- claims

\* Workers that were started and have not put their [0, True] event.
StartedNotDone == {i \in Targets : start_count[i] > 0 /\ done_put[i] = 0}

\* C1: in the multi-worker scheduling loop, for every target list and every
\* worker count W >= 1, the number of workers started that have not yet
\* emitted their terminal done event never exceeds W.
C1_AtMostWRunning ==
    max_processes >= 1 => Cardinality(StartedNotDone) <= max_processes

\* All W slots are taken while a target is still waiting to be launched.
C1_Witness ==
    /\ pc = "wait"
    /\ max_processes >= 1
    /\ Cardinality(StartedNotDone) = max_processes
    /\ current_process < number_of_processes

\* C2: no target is ever started twice, and when the loop exits after all
\* workers ran to completion every target of dl_list has been started exactly
\* once.
C2_StartedExactlyOnce ==
    /\ \A i \in Targets : start_count[i] <= 1
    /\ pc = "exited" => \A i \in 1..number_of_processes : start_count[i] = 1

\* The loop has exited after two targets went through a single worker slot.
C2_Witness ==
    /\ pc = "exited"
    /\ number_of_processes = 2
    /\ max_processes = 1

\* C3: for a tree with zero files the scheduling loop exits immediately with
\* zero launched, zero active and completed == total == 0, and prints
\* "Downloading complete" without ever rendering a progress percentage: once
\* the loop is entered with no target the coordinator is never found waiting
\* on the queue.
C3_EmptyTreeExitsImmediately ==
    (platform_linux /\ number_of_processes = 0 /\ pc \in {"sched", "wait", "exited"})
        => /\ pc # "wait"
           /\ current_process = 0
           /\ current_processes = 0
           /\ finished_processes = 0
           /\ last_pct = -1
           /\ pc = "exited" => printed_complete = 1

\* No interrupt has been delivered and no worker has stopped short of its
\* done event.
NoDisturbance ==
    /\ ~interrupted
    /\ \A i \in Targets : wpc[i] \notin {"aborted", "failed"}

\* C4: with total >= 1 and W >= 1, if every started worker streams its file to
\* the end and emits its done event, then under fair scheduling the loop
\* eventually prints "Downloading complete" exactly once and exits, and prints
\* it only when completed == total.
C4_EventuallyComplete ==
    []NoDisturbance =>
        /\ [](pc = "sched" /\ number_of_processes >= 1 /\ max_processes >= 1
                => <>(pc = "exited" /\ printed_complete = 1))
        /\ [](printed_complete <= 1)
        /\ [](printed_complete = 1 => finished_processes = number_of_processes)

RECURSIVE SumFsize(_)
\* The sum of the sizes of a listing, a size of 0 counted as 1.
SumFsize(sizes) ==
    IF sizes = <<>> THEN 0 ELSE Fsize(Head(sizes)) + SumFsize(Tail(sizes))

\* C5: a file of reported size 0 counts as 1 in dl_sum, so that no divisor of
\* the progress computation is zero at any consumed ProgressEvent (neither
\* dl_sum nor rate = downloaded_bytes // elapsed), and the bytes counted for
\* that file stay 0.
C5_NoZeroDivisor ==
    platform_linux =>
        /\ dl_sum = SumFsize(SubSeq(datafiles, 1, Len(resolved)))
        /\ err # "ZeroDivisionError"
        /\ \A i \in 1..Len(datafiles) :
              datafiles[i] = 0 => dsize[i] = 0 /\ emitted[i] = 0

\* download_file positions between two chunks or after the last one.
ChunkBoundary == {"loop", "eof", "returned"}

\* C6: for every worker running download_file in download-all mode, after
\* every chunk the sum of bytesDelta over its non-terminal events equals the
\* bytes it has written to its file; the terminal event carries bytesDelta 0
\* and done = true, and is emitted at most once, after all its chunk events.
C6_ByteAccounting ==
    /\ [](options_download_all =>
            /\ \A i \in Targets :
                  /\ wpc[i] \in ChunkBoundary => emitted[i] = dsize[i]
                  /\ done_put[i] <= 1
            /\ \A k \in 1..Len(queue) : queue[k][2] => queue[k][1] = 0)
    /\ [][\A i \in Targets :
            done_put[i] >= 1 => emitted'[i] = emitted[i] /\ done_put'[i] = done_put[i]]_vars

\* A worker has put two chunk events, the second shorter than a chunk, and
\* then its done event.
C6_Witness ==
    /\ options_download_all
    /\ \E i \in Targets :
          /\ done_put[i] = 1
          /\ emitted[i] > ChunkSize
          /\ emitted[i] = dsize[i]

C8_SequentialFallback ==
    ~platform_linux =>
        /\ pc \in {"resolve", "seq_dl"} => warned
        /\ \A i \in Targets : start_count[i] = 0
        /\ queue = <<>>
        /\ Cardinality(InFlight) <= 1
        /\ \A i \in InFlight : pc = "seq_dl" /\ i = file_idx
        /\ \A i \in 1..Len(datafiles) :
              /\ i > file_idx => wpc[i] = "idle"
              /\ i < file_idx => wpc[i] \in {"returned", "aborted"}
        /\ (pc = "ended" /\ ~interrupted /\ err \notin {"RequestException", "JSONDecodeError"})
              => exit_code = 0 /\ file_idx > Len(datafiles)

\* C9: download_file never mutates session or configuration state the
\* coordinator or a later download reads: after any number of downloads, in
\* multi-worker and in sequential mode alike, the coordinator's options.dir
\* equals its value before the first download, so every download URL is
\* resolved against the same directory prefix.
C9_DirNeverMutated ==
    /\ options_dir = initial_dir
    /\ \A k \in 1..Len(resolved) :
          resolved[k] = IF options_recursive THEN <<"">> ELSE initial_dir

RECURSIVE FileNodes(_)
\* The number of file-type nodes of a listing, at any depth.
FileNodes(dic) ==
    IF dic = <<>> THEN 0
    ELSE (IF Head(dic).type = "file" THEN 1 ELSE FileNodes(Head(dic).children))
         + FileNodes(Tail(dic))

RECURSIVE LeavesInOrder(_)
\* <<name, size>> of the file-type nodes of a listing, depth first, siblings in
\* the order of the listing.
LeavesInOrder(dic) ==
    IF dic = <<>> THEN <<>>
    ELSE (IF Head(dic).type = "file"
             THEN <<<<Head(dic).name, Head(dic).size>>>>
             ELSE LeavesInOrder(Head(dic).children))
         \o LeavesInOrder(Tail(dic))

\* C10: for every DirectoryEntry tree get_list returns exactly one target per
\* file-type node and none for directory-type nodes, in depth-first order
\* preserving the order of the entries as the directory service returned them.
C10_OneTargetPerFile ==
    flat_pc = "done" =>
        /\ Len(flist) = FileNodes(tree)
        /\ [k \in 1..Len(flist) |-> <<flist[k].name[Len(flist[k].name)], flist[k].size>>]
              = LeavesInOrder(tree)

\* A flattened listing with a file after a directory that holds another file.
C10_Witness ==
    /\ flat_pc = "done"
    /\ Len(tree) = 2
    /\ tree[1].type = "directory"
    /\ FileNodes(tree[1].children) = 1
    /\ tree[2].type = "file"
    /\ Len(flist) = 2
    /\ flist[1].name # flist[2].name

\* C11: if the listing response cannot be decoded, download_all aborts the run
\* with exit code 1 before any local directory is created, any download URL is
\* resolved, or any transfer or worker is started.
C11_DecodeFailureAborts ==
    err = "JSONDecodeError" =>
        /\ pc = "ended"
        /\ exit_code = 1
        /\ fs = {}
        /\ resolved = <<>>
        /\ \A i \in Targets : wpc[i] = "idle" /\ start_count[i] = 0

\* A recursive run of a listing with files has ended on the decode failure.
C11_Witness ==
    /\ err = "JSONDecodeError"
    /\ pc = "ended"
    /\ options_recursive
    /\ datafiles # <<>>

\* C12: on a completing download-all run whose expected total exceeds the
\* render threshold and whose files all deliver exactly their reported
\* non-zero size (one file, W = 1, say), the last progress line before
\* "Downloading complete" shows 100%, "Downloading complete" is printed
\* exactly once, and no earlier progress line shows more than 100%.
C12_FullPercentAtCompletion ==
    (platform_linux /\ \A k \in 1..Len(datafiles) : datafiles[k] # 0) =>
        /\ last_pct <= 100
        /\ printed_complete <= 1
        /\ (pc = "exited" /\ dl_sum > RenderThreshold)
              => last_pct = 100 /\ printed_complete = 1

\* One file larger than the threshold went through one worker and the loop
\* has exited.
C12_Witness ==
    /\ pc = "exited"
    /\ Len(datafiles) = 1
    /\ datafiles[1] > RenderThreshold
    /\ max_processes = 1
    /\ last_pct = 100
    /\ printed_complete = 1

\* C13: flattening is idempotent on the local filesystem: running get_list a
\* second time on the same tree, with every directory already created by the
\* first run (or created by another flatten between the existence check and
\* the create), raises no error, leaves the set of local directories
\* unchanged, and returns the same target list.
C13_FlattenIdempotent ==
    /\ [](flat_pc # "raised")
    /\ [](flat_pc \in {"done", "again"}
            => /\ flist = get_list(tree, session_dir, {}, {}).flist
               /\ \A d \in TreeDirs(tree, session_dir) : IsDir(fs, d))
    /\ [][flat_pc = "done" => flat_pc' = "again" /\ flist' = flist /\ fs' = fs]_vars

\* get_list has run twice on a listing with a file inside a directory.
C13_Witness ==
    /\ flat_pc = "again"
    /\ \E k \in 1..Len(tree) :
          tree[k].type = "directory" /\ FileNodes(tree[k].children) > 0
    /\ fs # {}

\* The workers that stopped without putting their done event: interrupted
\* mid-transfer, or dead of a transfer error.
Stopped == {i \in Targets : wpc[i] \in {"aborted", "failed"}}

\* A worker has stopped short and no interrupt has reached the coordinator.
StoppedShort == platform_linux /\ ~interrupted /\ Stopped # {}

\* C14: if a worker stops without its done event and no interrupt reaches the
\* coordinator, "Downloading complete" is never printed: the active counter
\* keeps counting that worker, completed stays below total, the coordinator
\* stays in its loop and, once the remaining events are drained, blocked on
\* the empty queue for good; with W workers stopped, no further target is
\* launched.
C14_StoppedWorkerHangs ==
    /\ [](StoppedShort =>
            /\ printed_complete = 0
            /\ finished_processes < number_of_processes
            /\ current_processes >= Cardinality(Stopped))
    /\ [][StoppedShort /\ Cardinality(Stopped) >= max_processes
            => start_count' = start_count]_vars
    /\ [][StoppedShort /\ pc \in {"sched", "wait"}
            => pc' \in {"sched", "wait"} \/ interrupted']_vars
    /\ <>[](StoppedShort => pc = "wait" /\ queue = <<>>)

\* C15: a worker interrupted at any point of its transfer puts no further
\* ProgressEvent on the queue, in particular no done event, and returns
\* normally: the interrupt itself puts nothing, the worker takes no step
\* afterwards, and an inline call hands no exception to its caller.
C15_InterruptedWorkerIsSilent ==
    /\ [](\A i \in Targets : wpc[i] = "aborted" => done_put[i] = 0)
    /\ [][\A i \in Targets :
            wpc[i] # "aborted" /\ wpc'[i] = "aborted"
                => /\ queue' = queue
                   /\ emitted'[i] = emitted[i]
                   /\ done_put'[i] = done_put[i]
                   /\ InInlineCall => pc' = pc /\ err' = err /\ exit_code' = exit_code]_vars
    /\ [][\A i \in Targets :
            wpc[i] = "aborted"
                => /\ wpc'[i] = "aborted"
                   /\ emitted'[i] = emitted[i]
                   /\ done_put'[i] = done_put[i]
                   /\ dsize'[i] = dsize[i]]_vars

\* A worker was interrupted alone after it had put a chunk event, and the
\* coordinator went on to consume that event.
C15_Witness ==
    /\ ~interrupted
    /\ pc \in {"sched", "wait"}
    /\ queue = <<>>
    /\ \E i \in Targets : wpc[i] = "aborted" /\ emitted[i] > 0
                          /\ downloaded_bytes >= emitted[i]

\* The bytes the workers of targets 1..n have written to their local files.
RECURSIVE BytesWritten(_)

BytesWritten(n) == IF n = 0 THEN 0 ELSE dsize[n] + BytesWritten(n - 1)

\* C16: when the loop exits after all workers completed, downloaded_bytes is
\* the sum over all targets of the bytes written to their local files: every
\* chunk event has been consumed exactly once by the time the last done event
\* is, whatever the interleaving of the workers' events on the queue.
C16_AllBytesCounted ==
    pc = "exited" =>
        /\ queue = <<>>
        /\ \A i \in 1..number_of_processes : wpc[i] = "returned" /\ emitted[i] = dsize[i]
        /\ downloaded_bytes = BytesWritten(number_of_processes)

\* Two workers ran side by side, each put more than one chunk event, and the
\* loop has exited.
C16_Witness ==
    /\ pc = "exited"
    /\ max_processes = 2
    /\ number_of_processes = 2
    /\ \A i \in 1..2 : dsize[i] > ChunkSize
    /\ downloaded_bytes = dsize[1] + dsize[2]

\* The coordinator is in its scheduling loop, or has just left it.
InLoop == platform_linux /\ pc \in {"sched", "wait", "exited"}

\* C17: in every reachable state of the scheduling loop
\* current_processes == current_process - finished_processes,
\* 0 <= current_processes <= max_processes and
\* 0 <= finished_processes <= current_process <= number_of_processes;
\* finished_processes is incremented only on consuming a done event, and only
\* the coordinator's own steps write the counters.
C17_CounterInvariant ==
    /\ [](InLoop =>
            /\ current_processes = current_process - finished_processes
            /\ 0 <= current_processes /\ current_processes <= max_processes
            /\ 0 <= finished_processes /\ finished_processes <= current_process
            /\ current_process <= number_of_processes)
    /\ [][finished_processes' # finished_processes
            => /\ pc = "wait" /\ queue # <<>> /\ Head(queue)[2]
               /\ finished_processes' = finished_processes + 1]_vars
    /\ [][<<current_processes, finished_processes, current_process>>' #
            <<current_processes, finished_processes, current_process>>
            => Schedule \/ Consume]_vars

\* C18: the scheduler is work-conserving: whenever the coordinator blocks on
\* the queue, either W workers are active (by its own count) or every target
\* has been launched; it never waits while a free worker slot and an
\* unlaunched target both exist.
C18_WorkConserving ==
    (platform_linux /\ pc = "wait") =>
        /\ current_processes = max_processes \/ current_process = number_of_processes
        /\ ~(current_processes < max_processes /\ current_process < number_of_processes)

\* C19: in multi-worker mode the download URL is requested exactly once per
\* target, synchronously and in listing order, and no worker is started until
\* the URL of every target has been resolved.
C19_ResolveBeforeSchedule ==
    /\ [](platform_linux =>
            /\ Len(resolved) = file_idx - 1
            /\ Len(resolved) <= Len(datafiles)
            /\ Len(dl_list) = Len(resolved)
            /\ \A k \in 1..Len(dl_list) : dl_list[k] = Fsize(datafiles[k])
            /\ (pc \in {"sched", "wait", "exited"} \/ \E i \in Targets : wpc[i] # "idle")
                  => Len(resolved) = Len(datafiles))
    /\ [][(platform_linux /\ resolved' # resolved)
            => /\ pc = "resolve"
               /\ Len(resolved') = Len(resolved) + 1
               /\ SubSeq(resolved', 1, Len(resolved)) = resolved
               /\ \A i \in Targets : wpc[i] = "idle" /\ start_count[i] = 0]_vars

\* Two URLs were resolved and the second target's worker has been started.
C19_Witness ==
    /\ platform_linux
    /\ Len(datafiles) = 2
    /\ Len(resolved) = 2
    /\ start_count[2] = 1

====
